---- MODULE Spec2Model ----
(***************************************************************************)
(* Model of the schedule monitor (src/automation.py): one process run is   *)
(* the sequence extract_schedule_table -> initialize_supabase ->           *)
(* fetch_existing_data -> hash compare / compare_dataframes ->             *)
(* update_supabase -> send_email_notification, against an external row     *)
(* store (table nursing_schedule) and an external mail provider.  Runs do  *)
(* not overlap; the store persists from one run to the next.               *)
(*                                                                         *)
(* Data.  A DataFrame is [cols, rows]: the column names in order and the   *)
(* rows as tuples of cell values.  A record (a Python dict) is the         *)
(* sequence of its <<column, value>> pairs in insertion order.  md5 is     *)
(* taken to be injective: a digest is modelled by the string it digests.   *)
(*                                                                         *)
(* The store.  It takes any record, gives it the next id of its sequence   *)
(* and returns the rows in insertion order; each of its calls may raise.   *)
(* calls, errors, store0, fault and lastGood record what the current run   *)
(* did; the program does not read them.                                    *)
(***************************************************************************)
EXTENDS Integers, Sequences, FiniteSets, TLC

\* Bounds of the model.
MaxRuns == 2        \* process runs in one behaviour
MaxRows == 2        \* <tr> data rows of a fetched page

\* Cell texts of the page: first-column (key) values and other values.
Keys == {"A", "B"}
Vals == {"x"}
\* Python's None as a cell value (a cell a row or a record lacks).
None == "None"

\* Header rows a page may carry: none, the usual one, a renamed first
\* column, a repeated column name.
HeaderChoices ==
  {<<>>, <<"City", "Date">>, <<"Centre", "Date">>, <<"City", "City">>}

VARIABLES
  env,          \* the five settings read at import: TRUE = set and non-empty
  store,        \* rows of table nursing_schedule, each a record
  nextId,       \* the store's id sequence
  run,          \* number of the current run; also the clock of datetime.now()
  pc,           \* position of the current run in __main__
  new_df,       \* result of extract_schedule_table (NoDF before / on failure)
  old_df,       \* result of fetch_existing_data
  changes,      \* result of compare_dataframes
  update_ok,    \* "none" until update_supabase returned, then "True"/"False"
  exit_code,    \* the process exit code (meaningful once pc = "done")
  calls,        \* external calls issued by the current run, in order
  errors,       \* error classes that occurred in the current run
  store0,       \* the store as it was when the current run started
  fault,        \* what was wrong with the response the current run fetched
  lastGood      \* [df, run]: the table written by the latest update_supabase
                \* that succeeded, while the store still holds its rows, and
                \* the run that wrote it (df = NoDF if none)

vars == <<env, store, nextId, run, pc, new_df, old_df, changes, update_ok,
          exit_code, calls, errors, store0, fault, lastGood>>

----------------------------------------------------------------------------
(* DataFrames and records *)

NoDF == [cols |-> <<>>, rows |-> <<>>, none |-> TRUE]
EmptyDF == [cols |-> <<>>, rows |-> <<>>, none |-> FALSE]
MkDF(cols, rows) == [cols |-> cols, rows |-> rows, none |-> FALSE]

\* DataFrame.empty: no column or no row.
IsEmpty(df) == Len(df.cols) = 0 \/ Len(df.rows) = 0

Range(s) == {s[i] : i \in 1..Len(s)}
HasDuplicates(s) == \E i, j \in 1..Len(s) : i # j /\ s[i] = s[j]

MaxLen(rows) ==
  IF rows = <<>> THEN 0
  ELSE CHOOSE n \in {Len(rows[i]) : i \in 1..Len(rows)} :
         \A i \in 1..Len(rows) : Len(rows[i]) <= n

\* pd.DataFrame(rows, columns=table_headers): short rows are padded with
\* None; the constructor raises when the widest row and the header differ
\* in length.
DataFrameRaises(rows, cols) == rows # <<>> /\ MaxLen(rows) # Len(cols)
DataFrame(rows, cols) ==
  MkDF(cols, [i \in 1..Len(rows) |->
                [j \in 1..Len(cols) |->
                   IF j <= Len(rows[i]) THEN rows[i][j] ELSE None]])

\* df.to_dict('records')
ToDictRecords(df) ==
  [i \in 1..Len(df.rows) |->
     [j \in 1..Len(df.cols) |-> <<df.cols[j], df.rows[i][j]>>]]

RecKeys(rec) == [j \in 1..Len(rec) |-> rec[j][1]]
RecGet(rec, col) ==
  IF \E j \in 1..Len(rec) : rec[j][1] = col
  THEN rec[CHOOSE j \in 1..Len(rec) : rec[j][1] = col][2]
  ELSE None

RECURSIVE UnionKeys(_, _)
UnionKeys(data, acc) ==
  IF data = <<>> THEN acc
  ELSE UnionKeys(Tail(data),
                 acc \o SelectSeq(RecKeys(Head(data)),
                                  LAMBDA c : c \notin Range(acc)))

\* pd.DataFrame(response.data): columns are the keys in order of first
\* appearance; a key a record lacks reads as None.
DataFrameFromRecords(data) ==
  LET cols == UnionKeys(data, <<>>)
  IN MkDF(cols, [i \in 1..Len(data) |->
                   [j \in 1..Len(cols) |-> RecGet(data[i], cols[j])]])

\* df[col].values
Column(df, col) ==
  LET j == CHOOSE k \in 1..Len(df.cols) : df.cols[k] = col
  IN [i \in 1..Len(df.rows) |-> df.rows[i][j]]

----------------------------------------------------------------------------
(* extract_schedule_table *)

\* A response: status "error" is any requests exception (network failure,
\* non-2xx status); otherwise the page has a <table> or not, and the table
\* its <tr> rows, each the texts of its cells.
TableHeaders(page) == IF page.trs = <<>> THEN <<>> ELSE page.trs[1]
TableRows(page) ==
  SelectSeq(IF page.trs = <<>> THEN <<>> ELSE Tail(page.trs),
            LAMBDA r : Len(r) > 0)

\* Faulty variant: the frame is built whenever there are headers.
HasTableData_HeadersOnly(rows, table_headers) == table_headers # <<>>
\* if rows and table_headers
HasTableData(rows, table_headers) == rows # <<>> /\ table_headers # <<>>

ExtractScheduleTable(page) ==
  IF page.status # "ok" THEN NoDF
  ELSE IF ~page.has_table THEN NoDF
  ELSE LET table_headers == TableHeaders(page)
           rows == TableRows(page)
       IN IF HasTableData(rows, table_headers)
          THEN IF DataFrameRaises(rows, table_headers)
               THEN NoDF
               ELSE DataFrame(rows, table_headers)
          ELSE NoDF

----------------------------------------------------------------------------
(* get_data_hash *)

\* to_json(orient='records') raises on repeated column names.
HashRaises(df) == HasDuplicates(df.cols)
GetDataHash(df) == <<"md5", ToDictRecords(df)>>
\* old_hash = "" when old_df is empty
EmptyHash == <<>>

----------------------------------------------------------------------------
(* compare_dataframes *)

\* df[df[key_col].isin(keys)].to_dict('records')
FilterIsin(df, key_col, keys) ==
  LET col == Column(df, key_col)
      recs == ToDictRecords(df)
      idx == SelectSeq([i \in 1..Len(recs) |-> i], LAMBDA i : col[i] \in keys)
  IN [n \in 1..Len(idx) |-> recs[idx[n]]]

NoChanges == [added |-> <<>>, removed |-> <<>>, modified |-> <<>>]

\* Faulty variant: the bootstrap branch returns without filling 'added'.
BootstrapChanges_Unfilled(new) == NoChanges
\* if old_df.empty: changes['added'] = new_df.to_dict('records')
BootstrapChanges(new) == [NoChanges EXCEPT !.added = ToDictRecords(new)]

\* Faulty variant: the key column is never found among the columns of old_df.
OldKeys_NeverFound(old, key_col) == {}
\* old_keys = set(old_df[key_col].values) if key_col in old_df.columns
\*            else set()
OldKeys(old, key_col) ==
  IF key_col \in Range(old.cols) THEN Range(Column(old, key_col)) ELSE {}

\* Faulty variant: the removed rows are looked up in new_df.
RemovedRows_FromNew(old, new, key_col, removed_keys) ==
  FilterIsin(new, key_col, removed_keys)
\* old_df[old_df[key_col].isin(removed_keys)].to_dict('records')
RemovedRows(old, new, key_col, removed_keys) ==
  FilterIsin(old, key_col, removed_keys)

CompareDataframes(old, new) ==
  IF IsEmpty(old)
  THEN BootstrapChanges(new)
  ELSE IF Len(new.cols) > 0
  THEN LET key_col == new.cols[1]
           old_keys == OldKeys(old, key_col)
           new_keys == Range(Column(new, key_col))
           added_keys == new_keys \ old_keys
           removed_keys == old_keys \ new_keys
       IN [added |-> IF added_keys # {}
                     THEN FilterIsin(new, key_col, added_keys) ELSE <<>>,
           removed |-> IF removed_keys # {}
                       THEN RemovedRows(old, new, key_col, removed_keys)
                       ELSE <<>>,
           modified |-> <<>>]
  ELSE NoChanges

----------------------------------------------------------------------------
(* The environment, the page and the store *)

Envs ==
  [SUPABASE_URL : BOOLEAN, SUPABASE_KEY : BOOLEAN, SENDGRID_API_KEY : BOOLEAN,
   SENDER_EMAIL : BOOLEAN, RECIPIENT_EMAIL : BOOLEAN]

\* Faulty variant: the check fires only when both are missing.
StoreCredentialsMissing_Both(e) == ~e.SUPABASE_URL /\ ~e.SUPABASE_KEY
\* if not SUPABASE_URL or not SUPABASE_KEY
StoreCredentialsMissing(e) == ~e.SUPABASE_URL \/ ~e.SUPABASE_KEY

\* Faulty variant: any() in place of all().
EmailConfigured_Any(e) ==
  e.SENDGRID_API_KEY \/ e.SENDER_EMAIL \/ e.RECIPIENT_EMAIL
\* all([SENDGRID_API_KEY, SENDER_EMAIL, RECIPIENT_EMAIL])
EmailConfigured(e) ==
  e.SENDGRID_API_KEY /\ e.SENDER_EMAIL /\ e.RECIPIENT_EMAIL

SeqsUpTo(S, n) == UNION {[1..m -> S] : m \in 0..n}

\* A <tr> of the table body has no cell, or a key cell and a value cell,
\* or (a table narrower than its header) a key cell only.
FullTrs == {<<>>} \cup {<<k, v>> : k \in Keys, v \in Vals}
ShortTrs == {<<>>} \cup {<<k>> : k \in Keys}

\* The bodies of a page: its rows are all full or all short.
Bodies == SeqsUpTo(FullTrs, MaxRows) \cup SeqsUpTo(ShortTrs, MaxRows)

Pages ==
  {[status |-> "error", has_table |-> FALSE, trs |-> <<>>],
   [status |-> "ok", has_table |-> FALSE, trs |-> <<>>],
   [status |-> "ok", has_table |-> TRUE, trs |-> <<>>]}
  \cup {[status |-> "ok", has_table |-> TRUE, trs |-> <<h>> \o d] :
          h \in HeaderChoices, d \in Bodies}

\* What is wrong with a response, in the order extract_schedule_table
\* meets it.
PageFault(page) ==
  IF page.status # "ok" THEN "request"
  ELSE IF ~page.has_table THEN "no_table"
  ELSE IF page.trs = <<>> \/ page.trs[1] = <<>> THEN "no_headers"
  ELSE IF \A i \in 2..Len(page.trs) : page.trs[i] = <<>> THEN "no_rows"
  ELSE IF MaxLen(Tail(page.trs)) # Len(page.trs[1]) THEN "width"
  ELSE "none"

\* insert(record): the store assigns the id.
StoreInsert(st, id, record) == Append(st, <<(<<"id", id>>)>> \o record)

\* delete().neq('id', 0): every row whose id is not 0 goes.
StoreDeleteAll(st) == SelectSeq(st, LAMBDA r : RecGet(r, "id") = 0)

\* record['scraped_at'] = datetime.now().isoformat()
Stamped(record, now) == Append(record, <<"scraped_at", now>>)

RECURSIVE InsertAll(_, _, _, _)
InsertAll(st, id, records, now) ==
  IF records = <<>> THEN st
  ELSE InsertAll(StoreInsert(st, id, Stamped(Head(records), now)),
                 id + 1, Tail(records), now)

Prefix(s, n) == SubSeq(s, 1, n)
Repeat(x, n) == [i \in 1..n |-> x]

\* Faulty variant: the update is made whenever the hashes differ.
ActualRowChanges_Always(ch) == TRUE
\* if len(changes['added']) > 0 or len(changes['removed']) > 0
ActualRowChanges(ch) == Len(ch.added) > 0 \/ Len(ch.removed) > 0

\* Faulty variant: the result of update_supabase is not looked at.
NotifyAfter_Always(updated) == TRUE
\* if update_supabase(supabase, new_df): ... send_email_notification(...)
NotifyAfter(updated) == updated

NoGood == [df |-> NoDF, run |-> 0]

----------------------------------------------------------------------------
(* One run of __main__ *)

Init ==
  /\ env \in Envs
  /\ store = <<>>
  /\ nextId = 1
  /\ run = 1
  /\ pc = "extract"
  /\ new_df = NoDF
  /\ old_df = NoDF
  /\ changes = NoChanges
  /\ update_ok = "none"
  /\ exit_code = 0
  /\ calls = <<>>
  /\ errors = {}
  /\ store0 = <<>>
  /\ fault = "unfetched"
  /\ lastGood = NoGood

\* exit(code), or the end of the script for code 0.
Exit(code) ==
  /\ pc' = "done"
  /\ exit_code' = code

\* new_df = extract_schedule_table(); exit(1) when it is None.
Extract ==
  /\ pc = "extract"
  /\ \E page \in Pages :
       /\ new_df' = ExtractScheduleTable(page)
       /\ fault' = PageFault(page)
       /\ calls' = Append(calls, "http_get")
       /\ IF new_df'.none
          THEN /\ errors' = errors \cup {"fetch"}
               /\ Exit(1)
          ELSE /\ errors' = errors
               /\ pc' = "init_supabase"
               /\ exit_code' = exit_code
  /\ UNCHANGED <<env, store, nextId, run, old_df, changes, update_ok, store0,
                 lastGood>>

\* supabase = initialize_supabase(): ValueError without URL or key, caught
\* by the handler of __main__, which exits 1.
InitializeSupabase ==
  /\ pc = "init_supabase"
  /\ IF StoreCredentialsMissing(env)
     THEN /\ errors' = errors \cup {"config"}
          /\ Exit(1)
     ELSE /\ errors' = errors
          /\ pc' = "fetch_existing"
          /\ exit_code' = exit_code
  /\ UNCHANGED <<env, store, nextId, run, new_df, old_df, changes, update_ok,
                 calls, store0, fault, lastGood>>

\* old_df = fetch_existing_data(supabase): a failed select reads as empty.
FetchExistingData ==
  /\ pc = "fetch_existing"
  /\ calls' = Append(calls, "select")
  /\ \E ok \in BOOLEAN :
       IF ok
       THEN /\ old_df' = IF store # <<>> THEN DataFrameFromRecords(store)
                         ELSE EmptyDF
            /\ errors' = errors
       ELSE /\ old_df' = EmptyDF
            /\ errors' = errors \cup {"store_read"}
  /\ pc' = "compare"
  /\ UNCHANGED <<env, store, nextId, run, new_df, changes, update_ok,
                 exit_code, store0, fault, lastGood>>

\* Step 4 of __main__: the two hashes, compare_dataframes, the decision.
\* An exception of get_data_hash reaches the handler of __main__: exit(1).
CompareData ==
  /\ pc = "compare"
  /\ IF HashRaises(new_df)
     THEN /\ errors' = errors \cup {"unhandled"}
          /\ changes' = changes
          /\ Exit(1)
     ELSE LET new_hash == GetDataHash(new_df)
              old_hash == IF ~IsEmpty(old_df) THEN GetDataHash(old_df)
                          ELSE EmptyHash
          IN /\ errors' = errors
             /\ IF new_hash # old_hash
                THEN /\ changes' = CompareDataframes(old_df, new_df)
                     /\ IF ActualRowChanges(changes')
                        THEN /\ pc' = "update"
                             /\ exit_code' = exit_code
                        ELSE Exit(0)
                ELSE /\ changes' = changes
                     /\ Exit(0)
  /\ UNCHANGED <<env, store, nextId, run, new_df, old_df, update_ok, calls,
                 store0, fault, lastGood>>

\* update_supabase(supabase, new_df) and the branch of __main__ on its
\* result.  fail_at = 0: the delete raises; fail_at = k in 1..n: the k-th
\* insert raises; fail_at = n + 1: no call raises.  A call that raises may
\* or may not have taken effect in the store (applied).
UpdateSupabase ==
  /\ pc = "update"
  /\ LET records == ToDictRecords(new_df)
         n == Len(records)
     IN \E fail_at \in 0..(n + 1), applied \in BOOLEAN :
          LET deleted == fail_at > 0 \/ applied
              inserted == IF fail_at = 0 THEN 0
                          ELSE IF fail_at = n + 1 THEN n
                          ELSE IF applied THEN fail_at ELSE fail_at - 1
              issued == IF fail_at = n + 1 THEN n ELSE fail_at
              ok == fail_at = n + 1
          IN /\ (ok => applied)
             /\ store' = InsertAll(IF deleted THEN StoreDeleteAll(store)
                                   ELSE store,
                                   nextId, Prefix(records, inserted), run)
             /\ nextId' = nextId + inserted
             /\ calls' = calls \o <<"delete">> \o Repeat("insert", issued)
             /\ update_ok' = IF ok THEN "True" ELSE "False"
             /\ lastGood' = IF ok THEN [df |-> new_df, run |-> run]
                            ELSE IF deleted THEN NoGood ELSE lastGood
             /\ errors' = IF ok THEN errors ELSE errors \cup {"store_write"}
             /\ IF NotifyAfter(ok)
                THEN /\ pc' = "notify"
                     /\ exit_code' = exit_code
                ELSE Exit(0)
  /\ UNCHANGED <<env, run, new_df, old_df, changes, store0, fault>>

\* send_email_notification(subject, body), then the end of __main__.
SendEmailNotification ==
  /\ pc = "notify"
  /\ IF ~EmailConfigured(env)
     THEN /\ errors' = errors \cup {"notify_config"}
          /\ calls' = calls
     ELSE \E sent \in BOOLEAN :
            /\ calls' = Append(calls, "send")
            /\ errors' = IF sent THEN errors ELSE errors \cup {"notify_send"}
  /\ Exit(0)
  /\ UNCHANGED <<env, store, nextId, run, new_df, old_df, changes, update_ok,
                 store0, fault, lastGood>>

\* The scheduler starts the next process once this one has exited; the
\* settings are read again at import.
NextRun ==
  /\ pc = "done"
  /\ run < MaxRuns
  /\ run' = run + 1
  /\ env' \in Envs
  /\ pc' = "extract"
  /\ new_df' = NoDF
  /\ old_df' = NoDF
  /\ changes' = NoChanges
  /\ update_ok' = "none"
  /\ exit_code' = 0
  /\ calls' = <<>>
  /\ errors' = {}
  /\ store0' = store
  /\ fault' = "unfetched"
  /\ UNCHANGED <<store, nextId, lastGood>>

Next ==
  \/ Extract
  \/ InitializeSupabase
  \/ FetchExistingData
  \/ CompareData
  \/ UpdateSupabase
  \/ SendEmailNotification
  \/ NextRun

Spec == Init /\ [][Next]_vars

----------------------------------------------------------------------------
(* compare_dataframes on its own: every pair of tables within the bounds *)

MaxDiffRows == 3
DiffKeys == {"A", "B", "C", "D"}
DiffVals == {"x", "y"}

NonEmptySeqs(S, n) == SeqsUpTo(S, n) \ {<<>>}

\* A fetched table: City, Date.
PlainTable(key_col, ks, d) ==
  MkDF(<<key_col, "Date">>, [i \in 1..Len(ks) |-> <<ks[i], d>>])

\* The same rows as fetch_existing_data reads them back from the store.
StoredTable(key_col, ks, d) ==
  DataFrameFromRecords(
    InsertAll(<<>>, 1, ToDictRecords(PlainTable(key_col, ks, d)), 1))

DiffOlds ==
  {EmptyDF}
  \cup {StoredTable(c, ks, "x") :
          c \in {"City", "Centre"}, ks \in NonEmptySeqs(DiffKeys, MaxDiffRows)}
  \cup {PlainTable("City", ks, "x") : ks \in NonEmptySeqs(DiffKeys, MaxDiffRows)}

DiffNews ==
  {PlainTable("City", ks, d) :
     ks \in NonEmptySeqs(DiffKeys, MaxDiffRows), d \in DiffVals}

DiffInit ==
  /\ old_df \in DiffOlds
  /\ new_df \in DiffNews
  /\ changes = NoChanges
  /\ pc = "diff"
  /\ env = [SUPABASE_URL |-> TRUE, SUPABASE_KEY |-> TRUE,
            SENDGRID_API_KEY |-> TRUE, SENDER_EMAIL |-> TRUE,
            RECIPIENT_EMAIL |-> TRUE]
  /\ store = <<>>
  /\ nextId = 1
  /\ run = 1
  /\ update_ok = "none"
  /\ exit_code = 0
  /\ calls = <<>>
  /\ errors = {}
  /\ store0 = <<>>
  /\ fault = "none"
  /\ lastGood = NoGood

\* changes = compare_dataframes(old_df, new_df)
DiffCompare ==
  /\ pc = "diff"
  /\ changes' = CompareDataframes(old_df, new_df)
  /\ pc' = "compared"
  /\ UNCHANGED <<env, store, nextId, run, new_df, old_df, update_ok,
                 exit_code, calls, errors, store0, fault, lastGood>>

DiffNext == DiffCompare

DiffSpec == DiffInit /\ [][DiffNext]_vars

----------------------------------------------------------------------------
(* Vocabulary of the properties *)

Wrote == \E i \in 1..Len(calls) : calls[i] \in {"delete", "insert"}
Emailed == \E i \in 1..Len(calls) : calls[i] = "send"
RowChangeCount == Len(changes.added) + Len(changes.removed)
StoreCredsSet == env.SUPABASE_URL /\ env.SUPABASE_KEY
EmailSettingsSet ==
  env.SENDGRID_API_KEY /\ env.SENDER_EMAIL /\ env.RECIPIENT_EMAIL

\* Row i of a table as a record.
RowRecord(df, i) == [j \in 1..Len(df.cols) |-> <<df.cols[j], df.rows[i][j]>>]
AllRecords(df) == [i \in 1..Len(df.rows) |-> RowRecord(df, i)]

HasColumn(df, c) == \E j \in 1..Len(df.cols) : df.cols[j] = c
Cell(df, i, c) == df.rows[i][CHOOSE j \in 1..Len(df.cols) : df.cols[j] = c]

\* The key values of a table: the values of column c, none if it lacks c.
KeySet(df, c) ==
  IF HasColumn(df, c) THEN {Cell(df, i, c) : i \in 1..Len(df.rows)} ELSE {}

\* The rows of df that have a key (column c) outside S, in table order.
RECURSIVE KeyedOutside(_, _, _, _)
KeyedOutside(df, c, S, n) ==
  IF n = 0 THEN <<>>
  ELSE IF HasColumn(df, c) /\ Cell(df, n, c) \notin S
  THEN Append(KeyedOutside(df, c, S, n - 1), RowRecord(df, n))
  ELSE KeyedOutside(df, c, S, n - 1)
RowsKeyedOutside(df, c, S) == KeyedOutside(df, c, S, Len(df.rows))

\* The store holds exactly the rows of df, in order, each with the id the
\* store gave it and a scraped_at field.
StoreHolds(st, df) ==
  /\ Len(st) = Len(df.rows)
  /\ \A i \in 1..Len(st) :
       /\ Len(st[i]) = Len(df.cols) + 2
       /\ st[i][1][1] = "id"
       /\ SubSeq(st[i], 2, Len(st[i]) - 1) = RowRecord(df, i)
       /\ st[i][Len(st[i])][1] = "scraped_at"

\* The cells of columns cs of each row of df.
Projection(df, cs) ==
  [i \in 1..Len(df.rows) |-> [j \in 1..Len(cs) |-> Cell(df, i, cs[j])]]

----------------------------------------------------------------------------
(* Properties *)

\* C1: a run writes the store (delete or insert) or sends an email only
\* when compare_dataframes reported at least one added or removed row; a
\* run that ends with no added and no removed row, whatever the hashes,
\* has written nothing and sent nothing.
C1_WriteAndEmailOnlyOnRowChanges ==
  /\ (Wrote \/ Emailed) => RowChangeCount > 0
  /\ (pc = "done" /\ RowChangeCount = 0) =>
       (~Wrote /\ ~Emailed /\ store = store0)

\* The fetched table is the stored one with its two rows swapped: the
\* hashes differ, nothing is added or removed, nothing is written or sent.
C1_Witness ==
  /\ pc = "done"
  /\ exit_code = 0
  /\ Len(new_df.rows) = 2
  /\ Len(old_df.rows) = 2
  /\ \A j \in 1..Len(new_df.cols) : HasColumn(old_df, new_df.cols[j])
  /\ Projection(old_df, new_df.cols) = <<new_df.rows[2], new_df.rows[1]>>
  /\ new_df.rows[1][1] # new_df.rows[2][1]
  /\ GetDataHash(new_df) # GetDataHash(old_df)
  /\ RowChangeCount = 0
  /\ ~Wrote
  /\ ~Emailed

\* C2: when the extraction fails (request error, no table, no header cell,
\* no non-empty data row, or rows the frame cannot take), the run ends at
\* once with exit code 1: its only call is the GET, and the store is as the
\* run found it.
C2_FailedExtractionLeavesStoreAlone ==
  fault \in {"request", "no_table", "no_headers", "no_rows", "width"} =>
    /\ pc = "done"
    /\ exit_code = 1
    /\ calls = <<"http_get">>
    /\ store = store0

\* A page without data rows is fetched while the store holds a snapshot.
C2_Witness ==
  /\ fault = "no_rows"
  /\ pc = "done"
  /\ store0 # <<>>
  /\ store = store0
  /\ StoreCredsSet

\* C3, as stated: a run that aborts on the missing store URL or key has
\* issued no call before, not even the GET of the schedule page.
C3_NoCallBeforeConfigurationError ==
  (~StoreCredsSet /\ "config" \in errors) => calls = <<>>

\* C3, amended: with the store URL or key missing the run issues no store
\* call and no email call, leaves the store alone and exits 1; the GET of
\* the page comes first, and the configuration error is raised exactly
\* when the extraction succeeded.
C3_NoStoreOrEmailCallWithoutCredentials ==
  ~StoreCredsSet =>
    /\ calls \in {<<>>, <<"http_get">>}
    /\ store = store0
    /\ pc \in {"extract", "init_supabase", "done"}
    /\ pc = "done" =>
         /\ exit_code = 1
         /\ calls = <<"http_get">>
         /\ ("config" \in errors) <=> ~new_df.none

\* The key is missing, the page was fetched and parsed, the run ended on
\* the configuration error.
C3_Witness ==
  /\ env.SUPABASE_URL
  /\ ~env.SUPABASE_KEY
  /\ pc = "done"
  /\ "config" \in errors
  /\ calls = <<"http_get">>
  /\ ~new_df.none

\* C4: send_email_notification is reached only after update_supabase
\* issued the delete and every insert and returned True; a run in which a
\* store write failed sends no email.
C4_EmailOnlyAfterSuccessfulUpdate ==
  /\ (pc = "notify" \/ Emailed
        \/ errors \cap {"notify_config", "notify_send"} # {}) =>
       /\ update_ok = "True"
       /\ "store_write" \notin errors
       /\ Len(calls) >= 3 + Len(new_df.rows)
       /\ SubSeq(calls, 1, 3 + Len(new_df.rows)) =
            <<"http_get", "select", "delete">>
              \o [i \in 1..Len(new_df.rows) |-> "insert"]
  /\ ("store_write" \in errors) =>
       (pc = "done" /\ ~Emailed /\ update_ok = "False")

\* An insert failed half way with the email settings complete: the store
\* is partly written and no email went out.
C4_Witness ==
  /\ pc = "done"
  /\ "store_write" \in errors
  /\ EmailSettingsSet
  /\ calls[Len(calls)] = "insert"
  /\ Len(store) = 1
  /\ Len(new_df.rows) = 2
  /\ ~Emailed

\* C5: a finished run has exit code 1 exactly when a fetch error, a store
\* write error or a missing-credentials error occurred in it.  (Runs ended
\* by an exception of no listed class are left aside.)
C5_ExitCodeOneOnFetchStoreConfigError ==
  (pc = "done" /\ "unhandled" \notin errors) =>
    (exit_code = 1 <=> errors \cap {"fetch", "store_write", "config"} # {})

\* C6: once update_supabase has returned, with True or with False, the
\* store holds the snapshot the run found or exactly the rows of the
\* fetched table, each with scraped_at.
C6_StoreIsOldOrExactlyNew ==
  update_ok # "none" => (store = store0 \/ StoreHolds(store, new_df))

\* C7: with an email setting unset, a run that found added or removed rows
\* sends nothing and exits 0; unless a store write failed, it has replaced
\* the store by the fetched table and skipped the notification.
C7_UpdateWithoutEmailSettings ==
  (pc = "done" /\ ~EmailSettingsSet /\ RowChangeCount > 0) =>
    /\ ~Emailed
    /\ exit_code = 0
    /\ ("store_write" \notin errors) =>
         /\ update_ok = "True"
         /\ StoreHolds(store, new_df)
         /\ "notify_config" \in errors

\* Only the recipient is unset; a stored snapshot is replaced by a table
\* with an added and a removed row.
C7_Witness ==
  /\ pc = "done"
  /\ env.SENDGRID_API_KEY /\ env.SENDER_EMAIL /\ ~env.RECIPIENT_EMAIL
  /\ store0 # <<>>
  /\ Len(changes.added) > 0
  /\ Len(changes.removed) > 0
  /\ StoreHolds(store, new_df)
  /\ store # store0
  /\ exit_code = 0
  /\ ~Emailed

\* C8: for a non-empty old table, with the first column of new as key,
\* added is the rows of new whose key is no key of old and removed is the
\* rows of old whose key is no key of new, each in its table's order; rows
\* whose key is in both tables are not reported.
C8_AddedAndRemovedByKey ==
  (pc = "compared" /\ Len(old_df.rows) > 0) =>
    /\ changes.added =
         RowsKeyedOutside(new_df, new_df.cols[1],
                          KeySet(old_df, new_df.cols[1]))
    /\ changes.removed =
         RowsKeyedOutside(old_df, new_df.cols[1],
                          KeySet(new_df, new_df.cols[1]))
    /\ changes.modified = <<>>
    /\ (Projection(new_df, <<new_df.cols[1]>>) =
          IF HasColumn(old_df, new_df.cols[1])
          THEN Projection(old_df, <<new_df.cols[1]>>) ELSE <<>>)
         => (changes.added = <<>> /\ changes.removed = <<>>)

\* Old keys A, B, C as read back from the store, new keys B, C, D with
\* another Date: row D is added, row A is removed.
C8_Witness ==
  /\ pc = "compared"
  /\ HasColumn(old_df, "id")
  /\ HasColumn(old_df, "City")
  /\ Projection(old_df, <<"City", "Date">>) =
       <<(<<"A", "x">>), (<<"B", "x">>), (<<"C", "x">>)>>
  /\ new_df.rows = <<(<<"B", "y">>), (<<"C", "y">>), (<<"D", "y">>)>>
  /\ changes.added = <<(<<(<<"City", "D">>), (<<"Date", "y">>)>>)>>
  /\ Len(changes.removed) = 1
  /\ RecGet(changes.removed[1], "City") = "A"

\* C9: when the old table is empty (nothing stored, or the read failed),
\* added is every row of the fetched table in order and removed is empty.
C9_EmptyOldAllAdded ==
  (pc \in {"update", "notify", "done"} /\ Len(old_df.rows) = 0
     /\ (\E i \in 1..Len(calls) : calls[i] = "select")
     /\ "unhandled" \notin errors) =>
    /\ changes.added = AllRecords(new_df)
    /\ Len(changes.added) > 0
    /\ changes.removed = <<>>

\* The store holds rows but the select failed: both fetched rows are
\* reported as added.
C9_Witness ==
  /\ pc = "update"
  /\ "store_read" \in errors
  /\ store0 # <<>>
  /\ Len(old_df.rows) = 0
  /\ Len(new_df.rows) = 2
  /\ changes.added = AllRecords(new_df)
  /\ changes.removed = <<>>

\* C10: a run that starts on the rows a previous run's successful
\* update_supabase wrote, fetches the same table and reads the store
\* ends after the comparison: the hashes differ (the stored rows carry id
\* and scraped_at), nothing is added or removed, and the run issues no
\* store write and no email.
C10_SameTableAfterUpdateIsNoOp ==
  (~lastGood.df.none /\ lastGood.run < run /\ new_df = lastGood.df
     /\ pc \in {"update", "notify", "done"}
     /\ "store_read" \notin errors /\ StoreCredsSet) =>
    /\ pc = "done"
    /\ exit_code = 0
    /\ calls = <<"http_get", "select">>
    /\ HasColumn(old_df, "id") /\ HasColumn(old_df, "scraped_at")
    /\ GetDataHash(new_df) # GetDataHash(old_df)
    /\ RowChangeCount = 0
    /\ store = store0

\* Run 1 wrote two rows; run 2 fetches the same two rows and stops after
\* the comparison.
C10_Witness ==
  /\ run = 2
  /\ lastGood.run = 1
  /\ new_df = lastGood.df
  /\ Len(new_df.rows) = 2
  /\ pc = "done"
  /\ "store_read" \notin errors
  /\ calls = <<"http_get", "select">>
  /\ GetDataHash(new_df) # GetDataHash(old_df)

====
